---- MODULE Spec2Model ----
(***************************************************************************)
(* Model of the MCP960X MicroPython driver (src/src/mcp960x.py): the       *)
(* handle (cached resolution, device id), the I2C transactions every       *)
(* public method issues, and the register file of the device they act on.  *)
(*                                                                         *)
(* Temperatures are fixed-point numbers counted in 1/64 degree, so that    *)
(* 0.0625 is 4, 0.25 is 16 and 1.0 is 64, and a limit that is not a        *)
(* multiple of 0.0625 can be written down (int() then truncates).          *)
(***************************************************************************)
EXTENDS Integers, Sequences, FiniteSets, TLC

\* ------------------------------------------------------------------ bounds
\* number of public calls made on one handle after construction
MaxOps == 2
\* largest filter coefficient a caller passes
MaxFilterArg == 9

\* --------------------------------------------------------- register map
REG_HOT_JUNCTION     == 0
REG_DELTA_TEMP       == 1
REG_COLD_JUNCTION    == 2
REG_RAW_ADC          == 3
REG_STATUS           == 4
REG_THERMO_CONFIG    == 5
REG_DEVICE_CONFIG    == 6
REG_ALERT_STATUS     == 7
REG_ALERT_CONFIG     == 8
REG_ALERT_HYSTERESIS == 12
REG_ALERT_LIMIT      == 16
REG_DEVICE_ID        == 32

\* 0.0625, 0.25 and 1.0 degree in 1/64 degree
Res0625 == 4
Res025  == 16
Res1    == 64

\* the registers of the device and the number of bytes each one holds
RegAddrs == (0 .. 19) \cup {REG_DEVICE_ID}

RegWidth(r) ==
  IF r \in {REG_HOT_JUNCTION, REG_DELTA_TEMP, REG_COLD_JUNCTION} THEN 2
  ELSE IF r = REG_RAW_ADC THEN 3
  ELSE IF r \in REG_ALERT_LIMIT .. (REG_ALERT_LIMIT + 3) THEN 2
  ELSE IF r = REG_DEVICE_ID THEN 2
  ELSE 1

\* ------------------------------------------------------ integer helpers
Min(a, b) == IF a < b THEN a ELSE b
Abs(x) == IF x < 0 THEN -x ELSE x

RECURSIVE Pow2(_)
Pow2(k) == IF k = 0 THEN 1 ELSE 2 * Pow2(k - 1)

\* Python's & | << >> on non-negative integers
RECURSIVE BitAnd(_, _)
BitAnd(a, b) ==
  IF a = 0 \/ b = 0 THEN 0
  ELSE (a % 2) * (b % 2) + 2 * BitAnd(a \div 2, b \div 2)

RECURSIVE BitOr(_, _)
BitOr(a, b) ==
  IF a = 0 THEN b
  ELSE IF b = 0 THEN a
  ELSE (IF a % 2 = 1 \/ b % 2 = 1 THEN 1 ELSE 0) + 2 * BitOr(a \div 2, b \div 2)

Shl(a, k) == a * Pow2(k)
Shr(a, k) == a \div Pow2(k)

\* bool(x & (1 << i))
TestBit(x, i) == BitAnd(x, Shl(1, i)) # 0

\* ------------------------------------------------------------ class tables
ADC_RESOLUTIONS == (12 :> 3) @@ (14 :> 2) @@ (16 :> 1) @@ (18 :> 0)

COLD_JUNCTION_RES == (Res0625 :> 0) @@ (Res025 :> 1)

THERMOCOUPLE_TYPES ==
  ("K" :> 0) @@ ("J" :> 1) @@ ("T" :> 2) @@ ("N" :> 3) @@
  ("S" :> 4) @@ ("E" :> 5) @@ ("B" :> 6) @@ ("R" :> 7)

\* str.upper() on the one-character strings the callers pass
Upper(c) ==
  CASE c = "k" -> "K" [] c = "j" -> "J" [] c = "t" -> "T" [] c = "n" -> "N"
    [] c = "s" -> "S" [] c = "e" -> "E" [] c = "b" -> "B" [] c = "r" -> "R"
    [] c = "x" -> "X"
    [] OTHER -> c

\* ------------------------------------------------------------------ state
VARIABLES
  regs,               \* device: register address -> bytes, high byte first
  ptr,                \* device: register pointer
  handle,             \* "none" before construction, "ready" after, "failed"
  adc_resolution,     \* self._adc_resolution
  cold_junction_res,  \* self._cold_junction_res (1/64 degree)
  dev_id,             \* self.dev_id
  lastOp,             \* the method that ran last
  args,               \* its arguments
  bus,                \* the bus transactions it issued, in order
  ret,                \* what it returned
  err,                \* "none", or the exception it raised
  preRegs,            \* regs when it was called
  prePtr,             \* ptr when it was called
  preCache,           \* <<adc_resolution, cold_junction_res>> when called
  prev,               \* the call before it: its name, arguments and exception
  nops,               \* public calls made so far
  lock,               \* the caller that holds the handle, 0 when it is free
  task                \* caller -> the call it is in and how far it has got

vars == <<regs, ptr, handle, adc_resolution, cold_junction_res, dev_id,
          lastOp, args, bus, ret, err, preRegs, prePtr, preCache, prev, nops,
          lock, task>>

\* the callers that share one handle
Callers == {1, 2}

\* a caller outside every call
Idle == [op |-> "idle", args |-> <<>>, plan |-> <<>>, done |-> <<>>, got |-> <<>>]

\* ------------------------------------------------------------- transport
\* The bus as a method sees it: the device registers, the device register
\* pointer and the log of the transactions issued so far.
BusOf(r, p) == [regs |-> r, ptr |-> p, log |-> <<>>]

\* the n bytes the device sends from register p on: it goes on to the next
\* register once the bytes of one are exhausted
RECURSIVE Burst(_, _, _)
Burst(r, p, n) ==
  IF n = 0 THEN <<>>
  ELSE LET cur == IF p \in RegAddrs THEN r[p] ELSE <<0>>
       IN  IF Len(cur) >= n THEN SubSeq(cur, 1, n)
           ELSE cur \o Burst(r, p + 1, n - Len(cur))

\* i2c.writeto(address, bytes): the first byte selects the register, the
\* bytes after it, if any, replace its content
writeto(b, bytes) ==
  [regs |-> IF Len(bytes) > 1 /\ bytes[1] \in RegAddrs
              THEN [b.regs EXCEPT ![bytes[1]] = Tail(bytes)]
              ELSE b.regs,
   ptr  |-> bytes[1],
   log  |-> Append(b.log, [op |-> "write", bytes |-> bytes])]

write_pointer(b, pointer) == writeto(b, <<pointer>>)

\* the bytearray _read_bytes returns, and the bus after it: a read starts at
\* the register the last write selected and leaves that selection in place
read_data(b, n_bytes) == Burst(b.regs, b.ptr, n_bytes)

read_bytes(b, n_bytes) ==
  [b EXCEPT !.log = Append(b.log, [op |-> "read", bytes |-> read_data(b, n_bytes)])]

\* the bus after transaction t of a log was carried out
Transact(b, t) ==
  IF t.op = "write" THEN writeto(b, t.bytes) ELSE read_bytes(b, Len(t.bytes))

\* the bus after the first k transactions of log were carried out from b
RECURSIVE Replay(_, _, _)
Replay(b, log, k) ==
  IF k = 0 THEN b ELSE Transact(Replay(b, log, k - 1), log[k])

\* what a method hands back: the bus after it, its value, its exception and
\* the cached resolution after it
Outcome(b, r, e, adc, cj) ==
  [b |-> b, ret |-> r, err |-> e, adc |-> adc, cj |-> cj]

NoValue == [none |-> TRUE]

\* ---------------------------------------------------------------- codec
\* DecodeWord without the sign adjustment
DecodeWordUnsigned(hi, lo) == BitOr(Shl(hi, 8), lo)

\* (data[i] << 8) | data[i+1], minus 65536 when bit 15 is set
DecodeWord(hi, lo) ==
  LET val == BitOr(Shl(hi, 8), lo)
  IN  IF BitAnd(val, 32768) # 0 THEN val - 65536 ELSE val

\* {12: 1.0, 14: 0.25, 16: 0.0625, 18: 0.0625}.get(adc, 0.0625)
AdcLsb(adc) ==
  CASE adc = 12 -> Res1
    [] adc = 14 -> Res025
    [] OTHER    -> Res0625

\* config byte of set_thermocouple_type from the byte read and the type code
ThermoConfig(old, code) == BitOr(BitAnd(old, 143), Shl(code, 4))

\* FilterConfig that drops the byte read
FilterConfigOverwrite(old, n) == Min(n, 7)

\* FilterConfig without the clamp to 7
FilterConfigUnclamped(old, n) == BitOr(BitAnd(old, 248), n)

\* config byte of set_filter_coefficient from the byte read and n (n >= 0)
FilterConfig(old, n) == BitOr(BitAnd(old, 248), Min(n, 7))

\* ResolutionConfig with the ADC code one bit too low
ResolutionConfigShifted(adc_bits, cj) ==
  BitOr(BitOr(0, Shl(ADC_RESOLUTIONS[adc_bits], 4)), Shl(COLD_JUNCTION_RES[cj], 7))

\* config byte of set_resolution from the validated pair
ResolutionConfig(adc_bits, cj) ==
  BitOr(BitOr(0, Shl(ADC_RESOLUTIONS[adc_bits], 5)), Shl(COLD_JUNCTION_RES[cj], 7))

\* PowerConfig keeping the mode bits read when the mode is not a known one
PowerConfigKeep(old, mode) ==
  LET config == BitAnd(old, 252)
  IN  IF mode = "shutdown" THEN BitOr(config, 1)
      ELSE IF mode = "burst" THEN BitOr(config, 2)
      ELSE IF mode = "normal" THEN config
      ELSE old

\* config byte of set_power_mode from the byte read and the mode
PowerConfig(old, mode) ==
  LET config == BitAnd(old, 252)
  IN  IF mode = "shutdown" THEN BitOr(config, 1)
      ELSE IF mode = "burst" THEN BitOr(config, 2)
      ELSE config

\* LimitVal encoding a negative limit as two's complement
LimitValTwosComplement(limit) ==
  LET limit_val == Abs(limit) \div Res0625
  IN  IF limit < 0 /\ limit_val > 0 THEN 65536 - limit_val ELSE limit_val

\* limit_val of set_alert: int(abs(limit) / 0.0625), bit 15 or-ed in when
\* limit < 0
LimitVal(limit) ==
  LET limit_val == Abs(limit) \div Res0625
  IN  IF limit < 0 THEN BitOr(limit_val, 32768) ELSE limit_val

\* config byte of set_alert from the flags
AlertConfig(a) ==
  LET c0 == 0
      c1 == IF a.enable             THEN BitOr(c0, 1)   ELSE c0
      c2 == IF a.mode = "interrupt" THEN BitOr(c1, 2)   ELSE c1
      c3 == IF ~a.active_low        THEN BitOr(c2, 4)   ELSE c2
      c4 == IF ~a.rising            THEN BitOr(c3, 8)   ELSE c3
      c5 == IF a.monitor = "TC"     THEN BitOr(c4, 16)  ELSE c4
      c6 == IF a.clear_interrupt    THEN BitOr(c5, 128) ELSE c5
  IN  c6

\* -------------------------------------------------------------- methods
get_device_id_and_revision(b) ==
  LET b1   == write_pointer(b, REG_DEVICE_ID)
      data == read_data(b1, 2)
  IN  [b |-> read_bytes(b1, 2), id |-> data[1], rev |-> data[2]]

set_thermocouple_type(b, type_char, adc, cj) ==
  LET old == read_data(b, 1)[1]
      b1  == read_bytes(b, 1)
      key == Upper(type_char)
  IN  IF key \notin DOMAIN THERMOCOUPLE_TYPES
        THEN Outcome(b1, NoValue, "KeyError", adc, cj)
        ELSE Outcome(writeto(b1, <<REG_THERMO_CONFIG,
                                   ThermoConfig(old, THERMOCOUPLE_TYPES[key])>>),
                     NoValue, "none", adc, cj)

set_filter_coefficient(b, n, adc, cj) ==
  LET old == read_data(b, 1)[1]
      b1  == read_bytes(b, 1)
  IN  IF Min(n, 7) < 0
        \* config | negative is negative: bytes() rejects it
        THEN Outcome(b1, NoValue, "ValueError", adc, cj)
        ELSE Outcome(writeto(b1, <<REG_THERMO_CONFIG, FilterConfig(old, n)>>),
                     NoValue, "none", adc, cj)

\* read_temperatures selecting each of the three registers before reading it
read_temperatures_repoint(b, adc, cj) ==
  LET b1 == read_bytes(write_pointer(b, REG_HOT_JUNCTION), 2)
      b2 == read_bytes(write_pointer(b1, REG_DELTA_TEMP), 2)
      b3 == read_bytes(write_pointer(b2, REG_COLD_JUNCTION), 2)
      th == b.regs[REG_HOT_JUNCTION]
      td == b.regs[REG_DELTA_TEMP]
      tc == b.regs[REG_COLD_JUNCTION]
  IN  Outcome(b3,
              [T_H     |-> DecodeWord(th[1], th[2]) * AdcLsb(adc),
               T_delta |-> DecodeWord(td[1], td[2]) * AdcLsb(adc),
               T_C     |-> DecodeWord(tc[1], tc[2]) * cj],
              "none", adc, cj)

read_temperatures(b, adc, cj) ==
  LET adc_lsb  == AdcLsb(adc)
      cold_lsb == cj
      b1       == write_pointer(b, REG_HOT_JUNCTION)
      data     == read_data(b1, 6)
      temps    == [k \in 1 .. 3 |->
                     DecodeWord(data[2 * k - 1], data[2 * k])
                       * (IF 2 * k - 2 = 4 THEN cold_lsb ELSE adc_lsb)]
  IN  Outcome(read_bytes(b1, 6),
              [T_H |-> temps[1], T_delta |-> temps[2], T_C |-> temps[3]],
              "none", adc, cj)

set_resolution(b, adc_bits, cj_res, adc, cj) ==
  LET adc1 == IF adc_bits \notin DOMAIN ADC_RESOLUTIONS THEN 18 ELSE adc_bits
      cj1  == IF cj_res \notin DOMAIN COLD_JUNCTION_RES THEN Res0625 ELSE cj_res
  IN  Outcome(writeto(b, <<REG_DEVICE_CONFIG, ResolutionConfig(adc1, cj1)>>),
              NoValue, "none", adc1, cj1)

set_power_mode(b, mode, adc, cj) ==
  LET old == read_data(b, 1)[1]
      b1  == read_bytes(b, 1)
  IN  Outcome(writeto(b1, <<REG_DEVICE_CONFIG, PowerConfig(old, mode)>>),
              NoValue, "none", adc, cj)

read_all_alerts(b, adc, cj) ==
  LET b1          == write_pointer(b, REG_ALERT_CONFIG)
      configs     == read_data(b1, 4)
      b2          == read_bytes(b1, 4)
      b3          == write_pointer(b2, REG_ALERT_LIMIT)
      limits_data == read_data(b3, 8)
      b4          == read_bytes(b3, 8)
      limits      == [k \in 1 .. 4 |->
                        DecodeWord(limits_data[2 * k - 1], limits_data[2 * k])
                          * Res0625]
      b5          == write_pointer(b4, REG_ALERT_HYSTERESIS)
      hyst        == read_data(b5, 4)
      b6          == read_bytes(b5, 4)
  IN  Outcome(b6, [configs |-> configs, limits |-> limits, hysteresis |-> hyst],
              "none", adc, cj)

\* set_alert writing every hysteresis to the register of channel 1
set_alert_hysteresis_fixed(b, a, adc, cj) ==
  IF ~(1 <= a.alert_num /\ a.alert_num <= 4)
    THEN Outcome(b, NoValue, "AssertionError", adc, cj)
    ELSE
      LET limit_val == LimitVal(a.limit)
          b1 == writeto(b, <<REG_ALERT_LIMIT + (a.alert_num - 1),
                             BitAnd(Shr(limit_val, 8), 255),
                             BitAnd(limit_val, 255)>>)
          h  == Min(a.hysteresis, 255)
      IN  IF h < 0
            THEN Outcome(b1, NoValue, "ValueError", adc, cj)
            ELSE
              LET b2 == writeto(b1, <<REG_ALERT_HYSTERESIS, h>>)
                  b3 == writeto(b2, <<REG_ALERT_CONFIG + (a.alert_num - 1),
                                      AlertConfig(a)>>)
              IN  Outcome(b3, NoValue, "none", adc, cj)

\* set_alert merging the flags into the config byte it reads back
set_alert_rmw(b, a, adc, cj) ==
  IF ~(1 <= a.alert_num /\ a.alert_num <= 4)
    THEN Outcome(b, NoValue, "AssertionError", adc, cj)
    ELSE
      LET limit_val == LimitVal(a.limit)
          b1 == writeto(b, <<REG_ALERT_LIMIT + (a.alert_num - 1),
                             BitAnd(Shr(limit_val, 8), 255),
                             BitAnd(limit_val, 255)>>)
          h  == Min(a.hysteresis, 255)
      IN  IF h < 0
            THEN Outcome(b1, NoValue, "ValueError", adc, cj)
            ELSE
              LET b2  == writeto(b1, <<REG_ALERT_HYSTERESIS + (a.alert_num - 1), h>>)
                  b3  == write_pointer(b2, REG_ALERT_CONFIG + (a.alert_num - 1))
                  old == read_data(b3, 1)[1]
                  b4  == read_bytes(b3, 1)
                  b5  == writeto(b4, <<REG_ALERT_CONFIG + (a.alert_num - 1),
                                       BitOr(old, AlertConfig(a))>>)
              IN  Outcome(b5, NoValue, "none", adc, cj)

set_alert(b, a, adc, cj) ==
  IF ~(1 <= a.alert_num /\ a.alert_num <= 4)
    THEN Outcome(b, NoValue, "AssertionError", adc, cj)
    ELSE
      LET limit_val == LimitVal(a.limit)
          b1 == writeto(b, <<REG_ALERT_LIMIT + (a.alert_num - 1),
                             BitAnd(Shr(limit_val, 8), 255),
                             BitAnd(limit_val, 255)>>)
          h  == Min(a.hysteresis, 255)
      IN  IF h < 0
            \* bytes() rejects a negative element, after the limit write
            THEN Outcome(b1, NoValue, "ValueError", adc, cj)
            ELSE
              LET b2 == writeto(b1, <<REG_ALERT_HYSTERESIS + (a.alert_num - 1), h>>)
                  b3 == writeto(b2, <<REG_ALERT_CONFIG + (a.alert_num - 1),
                                      AlertConfig(a)>>)
              IN  Outcome(b3, NoValue, "none", adc, cj)

\* get_status taking the short-circuit bit from the register on every device
get_status_anyid(b, id, adc, cj) ==
  LET b1     == write_pointer(b, REG_STATUS)
      status == read_data(b1, 1)[1]
  IN  Outcome(read_bytes(b1, 1),
              [burst_complete    |-> TestBit(status, 7),
               temp_updated      |-> TestBit(status, 6),
               short_circuit     |-> TestBit(status, 5),
               input_range_error |-> TestBit(status, 4),
               alerts            |-> [i \in 0 .. 3 |-> TestBit(status, i)]],
              "none", adc, cj)

\* get_status reading without selecting the status register first
get_status_nopointer(b, id, adc, cj) ==
  LET status == read_data(b, 1)[1]
      sc     == IF id = 64 THEN FALSE ELSE TestBit(status, 5)
  IN  Outcome(read_bytes(b, 1),
              [burst_complete    |-> TestBit(status, 7),
               temp_updated      |-> TestBit(status, 6),
               short_circuit     |-> sc,
               input_range_error |-> TestBit(status, 4),
               alerts            |-> [i \in 0 .. 3 |-> TestBit(status, i)]],
              "none", adc, cj)

get_status(b, id, adc, cj) ==
  LET b1     == write_pointer(b, REG_STATUS)
      status == read_data(b1, 1)[1]
      sc     == IF id = 64 THEN FALSE ELSE TestBit(status, 5)
  IN  Outcome(read_bytes(b1, 1),
              [burst_complete    |-> TestBit(status, 7),
               temp_updated      |-> TestBit(status, 6),
               short_circuit     |-> sc,
               input_range_error |-> TestBit(status, 4),
               alerts            |-> [i \in 0 .. 3 |-> TestBit(status, i)]],
              "none", adc, cj)

\* str(alert_num) for the numbers that pass the range check
Str(n) == CASE n = 1 -> "1" [] n = 2 -> "2" [] n = 3 -> "3" [] n = 4 -> "4"

\* the loop of get_alerts over the sequence xs: the result, or the first
\* number out of range
RECURSIVE AlertLoop(_, _, _)
AlertLoop(xs, status, result) ==
  IF xs = <<>> THEN [result |-> result, bad |-> FALSE]
  ELSE IF ~(1 <= Head(xs) /\ Head(xs) <= 4) THEN [result |-> result, bad |-> TRUE]
  ELSE AlertLoop(Tail(xs), status,
                 [k \in DOMAIN result \cup {Str(Head(xs))} |->
                    IF k = Str(Head(xs)) THEN TestBit(status, Head(xs) - 1)
                    ELSE result[k]])

\* alerts is [kind |-> "none"], [kind |-> "int", n |-> ..] or
\* [kind |-> "list", xs |-> ..]
get_alerts(b, alerts, adc, cj) ==
  LET b1     == write_pointer(b, REG_STATUS)
      status == read_data(b1, 1)[1]
      b2     == read_bytes(b1, 1)
  IN  IF alerts.kind = "int"
        \* (alerts) is the int itself: the for loop cannot iterate it
        THEN Outcome(b2, NoValue, "TypeError", adc, cj)
        ELSE
          LET xs == IF alerts.kind = "none" THEN <<1, 2, 3, 4>> ELSE alerts.xs
              l  == AlertLoop(xs, status, <<>>)
          IN  IF l.bad THEN Outcome(b2, NoValue, "ValueError", adc, cj)
              ELSE Outcome(b2, l.result, "none", adc, cj)

\* __init__ setting the resolution before type and filter
init_resolution_first(b, tctype, tcfilter, cj_res, adc_res) ==
  LET idr == get_device_id_and_revision(b)
      o3  == set_resolution(idr.b, 18, Res0625, adc_res, cj_res)
      o1  == set_thermocouple_type(o3.b, tctype, o3.adc, o3.cj)
      o2  == set_filter_coefficient(o1.b, tcfilter, o3.adc, o3.cj)
      o   == IF o1.err # "none" THEN o1 ELSE o2
  IN  [o EXCEPT !.ret = [dev_id |-> idr.id, rev |-> idr.rev]]

\* __init__ giving up on an id that is neither 0x40 nor 0x41
init_known_only(b, tctype, tcfilter, cj_res, adc_res) ==
  LET idr == get_device_id_and_revision(b)
      o1  == set_thermocouple_type(idr.b, tctype, adc_res, cj_res)
      o2  == set_filter_coefficient(o1.b, tcfilter, adc_res, cj_res)
      o3  == set_resolution(o2.b, 18, Res0625, adc_res, cj_res)
      o   == IF idr.id \notin {64, 65}
               THEN Outcome(idr.b, NoValue, "ValueError", adc_res, cj_res)
             ELSE IF o1.err # "none" THEN o1
             ELSE IF o2.err # "none" THEN o2
             ELSE o3
  IN  [o EXCEPT !.ret = [dev_id |-> idr.id, rev |-> idr.rev]]

\* __init__: the identity read, then the three configuration calls; an
\* exception of one of them ends construction
init(b, tctype, tcfilter, cj_res, adc_res) ==
  LET idr == get_device_id_and_revision(b)
      o1  == set_thermocouple_type(idr.b, tctype, adc_res, cj_res)
      o2  == set_filter_coefficient(o1.b, tcfilter, adc_res, cj_res)
      o3  == set_resolution(o2.b, 18, Res0625, adc_res, cj_res)
      o   == IF o1.err # "none" THEN o1
             ELSE IF o2.err # "none" THEN o2
             ELSE o3
  IN  [o EXCEPT !.ret = [dev_id |-> idr.id, rev |-> idr.rev]]

\* The outcome o of a method called on bus b when its k-th bus transaction
\* raises OSError: the transactions before it were carried out, the exception
\* leaves the method at once (assignments made before the call stay).
BusError(b, o, k) ==
  IF k \in 1 .. Len(o.b.log)
    THEN [o EXCEPT !.b = Replay(b, o.b.log, k - 1), !.ret = NoValue,
                   !.err = "OSError"]
    ELSE o

\* ------------------------------------------------------------- the device
\* the register file after power-up of a device that measures the words
\* th, td, tc, shows status and identifies itself as id: configuration and
\* alert registers are 0
PowerOnRegs(d) ==
  [r \in RegAddrs |->
     CASE r = REG_HOT_JUNCTION  -> d.th
       [] r = REG_DELTA_TEMP    -> d.td
       [] r = REG_COLD_JUNCTION -> d.tc
       [] r = REG_STATUS        -> <<d.status>>
       [] r = REG_DEVICE_ID     -> <<d.id, 16>>
       [] OTHER                 -> [i \in 1 .. RegWidth(r) |-> 0]]

\* MCP9600 and MCP9601 devices at different temperatures: 20.0 / -1.0 / 25.0
\* degrees, -12.5 / 0.5 / -6.25 degrees with alerts and the short-circuit
\* bit raised, the ends of the 16-bit range, and a device of the family whose
\* id is neither 0x40 nor 0x41
Devices ==
  { [id |-> 64, th |-> <<1, 64>>,    td |-> <<255, 240>>, tc |-> <<1, 144>>,
     status |-> 64],
    [id |-> 65, th |-> <<255, 56>>,  td |-> <<0, 8>>,     tc |-> <<255, 156>>,
     status |-> 181],
    [id |-> 64, th |-> <<127, 255>>, td |-> <<128, 0>>,   tc |-> <<0, 0>>,
     status |-> 0],
    [id |-> 65, th |-> <<128, 0>>,   td |-> <<127, 255>>, tc |-> <<255, 255>>,
     status |-> 255],
    [id |-> 64, th |-> <<0, 0>>,     td |-> <<255, 255>>, tc |-> <<128, 0>>,
     status |-> 47],
    [id |-> 65, th |-> <<255, 255>>, td |-> <<0, 0>>,     tc |-> <<127, 255>>,
     status |-> 16],
    [id |-> 66, th |-> <<0, 100>>,   td |-> <<0, 4>>,     tc |-> <<1, 0>>,
     status |-> 32] }

\* the device the alert calls are tried on
AlertDevices == { d \in Devices : d.status = 64 }

\* ---------------------------------------------------- the callers' inputs
TypeArgs      == {"j", "R", "X"}
FilterArgs    == {0, 3, 7, 8, MaxFilterArg}
AdcArgs       == {12, 14, 16, 18, 20}
ColdArgs      == {Res0625, Res025, 32}
ModeArgs      == {"normal", "shutdown", "burst", "sleep"}
ChannelArgs   == {1, 4, 5}
\* -37.5 and 37.5 degrees
LimitArgs     == {-2400, 2400}
AlertSelArgs  == { [kind |-> "none"], [kind |-> "int", n |-> 2],
                   [kind |-> "list", xs |-> <<2, 4>>],
                   [kind |-> "list", xs |-> <<1, 5>>] }

\* set_alert's keyword defaults
AlertDefaults ==
  [alert_num |-> 1, enable |-> TRUE, limit |-> 9600, hysteresis |-> 10,
   monitor |-> "TH", rising |-> TRUE, active_low |-> FALSE,
   mode |-> "comparator", clear_interrupt |-> FALSE]

\* the settings a caller passes next to channel and limit
AlertProfiles == { AlertDefaults }

\* the calls of set_alert tried in SpecAlert: every channel and two next to
\* them, limits of both signs (-2047.9375, -37.5, -1/64, 0, 3/32, 37.5,
\* 2047.984375 degrees), and every setting changed from its default
AlertChannelArgs == 0 .. 5
AlertLimitArgs   == {-131068, -2400, -1, 0, 6, 2400, 131071}
AlertProfileArgs ==
  { AlertDefaults,
    [AlertDefaults EXCEPT !.hysteresis = 300, !.monitor = "TC", !.rising = FALSE,
                          !.active_low = TRUE, !.mode = "interrupt",
                          !.enable = FALSE, !.clear_interrupt = TRUE] }

\* ------------------------------------------------------------------ Init
\* the device is powered, no handle exists yet
Init ==
  /\ \E d \in Devices : regs = PowerOnRegs(d)
  /\ ptr = 0
  /\ handle = "none"
  /\ adc_resolution = 18
  /\ cold_junction_res = Res0625
  /\ dev_id = 0
  /\ lastOp = "power_on"
  /\ args = <<>>
  /\ bus = <<>>
  /\ ret = NoValue
  /\ err = "none"
  /\ preRegs = regs
  /\ prePtr = ptr
  /\ preCache = <<adc_resolution, cold_junction_res>>
  /\ prev = [op |-> "none", args |-> <<>>, err |-> "none"]
  /\ nops = 0
  /\ lock = 0
  /\ task = [c \in Callers |-> Idle]

\* the handle right after tc = MCP960X(i2c, tctype="K", tcfilter=4, ...) on a
\* device of devs
InitReady(devs) ==
  \E d \in devs :
    LET o == init(BusOf(PowerOnRegs(d), 0), "K", 4, Res0625, 18)
    IN  /\ regs = o.b.regs
        /\ ptr = o.b.ptr
        /\ handle = "ready"
        /\ adc_resolution = o.adc
        /\ cold_junction_res = o.cj
        /\ dev_id = o.ret.dev_id
        /\ lastOp = "__init__"
        /\ args = <<"K", 4, Res0625, 18>>
        /\ bus = o.b.log
        /\ ret = o.ret
        /\ err = o.err
        /\ preRegs = PowerOnRegs(d)
        /\ prePtr = 0
        /\ preCache = <<18, Res0625>>
        /\ prev = [op |-> "power_on", args |-> <<>>, err |-> "none"]
        /\ nops = 0
        /\ lock = 0
        /\ task = [c \in Callers |-> Idle]

\* the state after a method that was called with arguments a ended with o
Finish(name, a, o) ==
  /\ regs' = o.b.regs
  /\ ptr' = o.b.ptr
  /\ adc_resolution' = o.adc
  /\ cold_junction_res' = o.cj
  /\ lastOp' = name
  /\ args' = a
  /\ bus' = o.b.log
  /\ ret' = o.ret
  /\ err' = o.err
  /\ preRegs' = regs
  /\ prePtr' = ptr
  /\ preCache' = <<adc_resolution, cold_junction_res>>
  /\ prev' = [op |-> lastOp, args |-> args, err |-> err]

\* a public method called on the constructed handle
Invoke(name, a, o) ==
  /\ handle = "ready"
  /\ Finish(name, a, o)
  /\ UNCHANGED <<handle, dev_id, lock, task>>

\* one more of the MaxOps calls
Counted ==
  /\ nops < MaxOps
  /\ nops' = nops + 1

Here == BusOf(regs, ptr)

\* ------------------------------------- the methods, called with inputs from
\* the given sets
DoConstruct(types, filters, cjs, adcs) ==
  /\ handle = "none"
  /\ \E tctype \in types, tcfilter \in filters, cj \in cjs, adc \in adcs :
       LET o == init(Here, tctype, tcfilter, cj, adc)
       IN  /\ Finish("__init__", <<tctype, tcfilter, cj, adc>>, o)
           /\ handle' = IF o.err = "none" THEN "ready" ELSE "failed"
           /\ dev_id' = IF o.err = "none" THEN o.ret.dev_id ELSE dev_id
           /\ UNCHANGED <<nops, lock, task>>

\* construction during which transaction k of the bus fails
DoConstructFault(types, filters, cjs, adcs, ks) ==
  /\ handle = "none"
  /\ \E tctype \in types, tcfilter \in filters, cj \in cjs, adc \in adcs, k \in ks :
       LET o == BusError(Here, init(Here, tctype, tcfilter, cj, adc), k)
       IN  /\ Finish("__init__", <<tctype, tcfilter, cj, adc>>, o)
           /\ handle' = IF o.err = "none" THEN "ready" ELSE "failed"
           /\ dev_id' = IF o.err = "none" THEN o.ret.dev_id ELSE dev_id
           /\ UNCHANGED <<nops, lock, task>>

DoReadTemperatures ==
  Invoke("read_temperatures", <<>>,
         read_temperatures(Here, adc_resolution, cold_junction_res))

DoSetThermocoupleType(types) ==
  \E t \in types :
    Invoke("set_thermocouple_type", <<t>>,
           set_thermocouple_type(Here, t, adc_resolution, cold_junction_res))

DoSetFilterCoefficient(ns) ==
  \E n \in ns :
    Invoke("set_filter_coefficient", <<n>>,
           set_filter_coefficient(Here, n, adc_resolution, cold_junction_res))

DoSetResolution(adcs, cjs) ==
  \E a \in adcs, c \in cjs :
    Invoke("set_resolution", <<a, c>>,
           set_resolution(Here, a, c, adc_resolution, cold_junction_res))

DoSetPowerMode(modes) ==
  \E m \in modes :
    Invoke("set_power_mode", <<m>>,
           set_power_mode(Here, m, adc_resolution, cold_junction_res))

DoReadAllAlerts ==
  Invoke("read_all_alerts", <<>>,
         read_all_alerts(Here, adc_resolution, cold_junction_res))

DoSetAlert(channels, limits, profiles) ==
  \E c \in channels, l \in limits, p \in profiles :
    LET a == [p EXCEPT !.alert_num = c, !.limit = l]
    IN  Invoke("set_alert", a,
               set_alert(Here, a, adc_resolution, cold_junction_res))

\* set_alert during which transaction k of the bus fails
DoSetAlertFault(channels, limits, profiles, ks) ==
  \E c \in channels, l \in limits, p \in profiles, k \in ks :
    LET a == [p EXCEPT !.alert_num = c, !.limit = l]
    IN  Invoke("set_alert", a,
               BusError(Here, set_alert(Here, a, adc_resolution, cold_junction_res), k))

DoGetStatus ==
  Invoke("get_status", <<>>,
         get_status(Here, dev_id, adc_resolution, cold_junction_res))

DoGetAlerts(sels) ==
  \E sel \in sels :
    Invoke("get_alerts", sel,
           get_alerts(Here, sel, adc_resolution, cold_junction_res))

\* --------------------------------------------------------------- actions
Construct == DoConstruct({"j", "X"}, {4}, {Res025}, {12})

ReadTemperatures     == Counted /\ DoReadTemperatures
SetThermocoupleType  == Counted /\ DoSetThermocoupleType(TypeArgs)
SetFilterCoefficient == Counted /\ DoSetFilterCoefficient(FilterArgs)
SetResolution        == Counted /\ DoSetResolution(AdcArgs, ColdArgs)
SetPowerMode         == Counted /\ DoSetPowerMode(ModeArgs)
ReadAllAlerts        == Counted /\ DoReadAllAlerts
SetAlert             == Counted /\ DoSetAlert(ChannelArgs, LimitArgs, AlertProfiles)
GetStatus            == Counted /\ DoGetStatus
GetAlerts            == Counted /\ DoGetAlerts(AlertSelArgs)

Next ==
  \/ Construct
  \/ ReadTemperatures
  \/ SetThermocoupleType
  \/ SetFilterCoefficient
  \/ SetResolution
  \/ SetPowerMode
  \/ ReadAllAlerts
  \/ SetAlert
  \/ GetStatus
  \/ GetAlerts

Spec == Init /\ [][Next]_vars

\* A caller that configures alerts and reads them back.
AlertSetAlert ==
  Counted /\ DoSetAlert(AlertChannelArgs, AlertLimitArgs, AlertProfileArgs)

AlertReadAllAlerts == Counted /\ DoReadAllAlerts

NextAlert ==
  \/ AlertSetAlert
  \/ AlertReadAllAlerts

SpecAlert == InitReady(AlertDevices) /\ [][NextAlert]_vars

\* A caller that constructs the handle with any arguments, on a bus that may
\* fail, and then reads temperatures.
InitTypeArgs   == {"K", "J", "T", "N", "S", "E", "B", "R", "j", "X"}
InitFilterArgs == 0 .. 7
InitColdArgs   == {Res0625, Res025}
InitAdcArgs    == {12, 14, 16, 18}
\* the transactions of __init__ that can fail
InitFaultArgs  == 1 .. 7

InitConstruct ==
  DoConstruct(InitTypeArgs, InitFilterArgs, InitColdArgs, InitAdcArgs)

InitConstructFault ==
  DoConstructFault({"K", "r"}, {4}, {Res0625}, {18}, InitFaultArgs)

InitReadTemperatures == Counted /\ DoReadTemperatures

NextInit ==
  \/ InitConstruct
  \/ InitConstructFault
  \/ InitReadTemperatures

SpecInit == Init /\ [][NextInit]_vars

\* A caller that configures alerts with every setting, on a bus that may fail.
AllChanged ==
  [AlertDefaults EXCEPT !.monitor = "TC", !.rising = FALSE, !.active_low = TRUE,
                        !.mode = "interrupt", !.enable = FALSE,
                        !.clear_interrupt = TRUE]

\* the defaults, each flag changed alone, all flags changed
CfgFlagArgs ==
  { AlertDefaults, AllChanged,
    [AlertDefaults EXCEPT !.enable = FALSE],
    [AlertDefaults EXCEPT !.mode = "interrupt"],
    [AlertDefaults EXCEPT !.active_low = TRUE],
    [AlertDefaults EXCEPT !.rising = FALSE],
    [AlertDefaults EXCEPT !.monitor = "TC"],
    [AlertDefaults EXCEPT !.clear_interrupt = TRUE] }

\* hysteresis below, inside and above one byte
CfgHysteresisArgs == {-1, 0, 255, 300}

CfgProfileArgs ==
  CfgFlagArgs \cup { [AlertDefaults EXCEPT !.hysteresis = h] : h \in CfgHysteresisArgs }

\* the writes of set_alert that can fail
CfgFaultArgs == 1 .. 3

CfgSetAlert == Counted /\ DoSetAlert(1 .. 4, {2400}, CfgProfileArgs)

CfgSetAlertFault ==
  Counted /\ DoSetAlertFault({1, 4}, {-2400}, {AlertDefaults, AllChanged}, CfgFaultArgs)

NextAlertCfg ==
  \/ CfgSetAlert
  \/ CfgSetAlertFault

SpecAlertCfg == InitReady(AlertDevices) /\ [][NextAlertCfg]_vars

\* Two callers share the handle and the bus. A call goes transaction by
\* transaction; a caller takes the handle before the first transaction of a
\* call and gives it back after the last.

\* the calls the callers make
SharedCalls ==
  << [op |-> "read_temperatures", args |-> <<>>],
     [op |-> "get_status", args |-> <<>>],
     [op |-> "get_alerts", args |-> [kind |-> "none"]],
     [op |-> "get_alerts", args |-> [kind |-> "int", n |-> 2]],
     [op |-> "get_alerts", args |-> [kind |-> "list", xs |-> <<2, 4>>]],
     [op |-> "set_resolution", args |-> <<12, Res025>>],
     [op |-> "set_alert", args |-> [AllChanged EXCEPT !.alert_num = 2, !.limit = -2400]] >>

\* the method of a call, run on bus b
Method(op, a, b) ==
  CASE op = "read_temperatures" -> read_temperatures(b, adc_resolution, cold_junction_res)
    [] op = "get_status"        -> get_status(b, dev_id, adc_resolution, cold_junction_res)
    [] op = "get_alerts"        -> get_alerts(b, a, adc_resolution, cold_junction_res)
    [] op = "set_resolution"    -> set_resolution(b, a[1], a[2], adc_resolution, cold_junction_res)
    [] op = "set_alert"         -> set_alert(b, a, adc_resolution, cold_junction_res)

\* the register a reading method selects
PointerOf(op) == IF op = "read_temperatures" THEN REG_HOT_JUNCTION ELSE REG_STATUS

\* registers r with the bytes got stored from register p on
RECURSIVE Fed(_, _, _)
Fed(r, p, got) ==
  IF Len(got) < RegWidth(p) THEN r
  ELSE Fed([r EXCEPT ![p] = SubSeq(got, 1, RegWidth(p))], p + 1,
           SubSeq(got, RegWidth(p) + 1, Len(got)))

\* what a method makes of the bytes its reads got: its outcome on a device
\* that answers with these bytes
Value(op, a, got) ==
  Method(op, a, BusOf(Fed(regs, PointerOf(op), got), PointerOf(op)))

\* caller c calls a method and waits for the handle
SharedCall ==
  /\ Counted
  /\ \E c \in Callers, i \in DOMAIN SharedCalls :
       /\ task[c].op = "idle"
       /\ task' = [task EXCEPT ![c] = [Idle EXCEPT !.op = SharedCalls[i].op,
                                                  !.args = SharedCalls[i].args]]
  /\ UNCHANGED <<regs, ptr, handle, adc_resolution, cold_junction_res, dev_id,
                 lastOp, args, bus, ret, err, preRegs, prePtr, preCache, prev, lock>>

\* caller c takes the free handle; the method starts: plan is the sequence of
\* transactions it goes through
SharedAcquire ==
  /\ lock = 0
  /\ \E c \in Callers :
       /\ task[c].op # "idle"
       /\ lock' = c
       /\ task' = [task EXCEPT ![c].plan = Method(task[c].op, task[c].args, Here).b.log]
  /\ UNCHANGED <<regs, ptr, handle, adc_resolution, cold_junction_res, dev_id,
                 lastOp, args, bus, ret, err, preRegs, prePtr, preCache, prev, nops>>

\* the next transaction of the call of the caller that holds the handle
SharedStep ==
  /\ lock # 0
  /\ Len(task[lock].done) < Len(task[lock].plan)
  /\ LET t == task[lock].plan[Len(task[lock].done) + 1]
     IN  IF t.op = "write"
           THEN LET b1 == writeto(Here, t.bytes)
                IN  /\ regs' = b1.regs
                    /\ ptr' = b1.ptr
                    /\ task' = [task EXCEPT ![lock].done = Append(@, t)]
           ELSE LET d  == read_data(Here, Len(t.bytes))
                    b1 == read_bytes(Here, Len(t.bytes))
                IN  /\ regs' = b1.regs
                    /\ ptr' = b1.ptr
                    /\ task' = [task EXCEPT
                                  ![lock].done = Append(@, [op |-> "read", bytes |-> d]),
                                  ![lock].got = @ \o d]
  /\ UNCHANGED <<handle, adc_resolution, cold_junction_res, dev_id, lastOp, args,
                 bus, ret, err, preRegs, prePtr, preCache, prev, nops, lock>>

\* the call returns or raises; the caller gives the handle back
SharedReturn ==
  /\ lock # 0
  /\ Len(task[lock].done) = Len(task[lock].plan)
  /\ LET o == Value(task[lock].op, task[lock].args, task[lock].got)
     IN  Finish(task[lock].op, task[lock].args,
                [o EXCEPT !.b = [regs |-> regs, ptr |-> ptr, log |-> task[lock].done]])
  /\ lock' = 0
  /\ task' = [task EXCEPT ![lock] = Idle]
  /\ UNCHANGED <<handle, dev_id, nops>>

NextShared ==
  \/ SharedCall
  \/ SharedAcquire
  \/ SharedStep
  \/ SharedReturn

SpecShared == InitReady(Devices) /\ [][NextShared]_vars

\* A caller that sets alert limits on both sides of 2048 degrees: 2048 and
\* 4096 degrees, one and sixteen steps of 1/64 degree off 2048, 1/16 degree, 0.
WideLimitArgs ==
  {-262144, -131088, -131072, -131071, -4, 0, 4, 131071, 131072, 131088, 262144}

WideSetAlert == Counted /\ DoSetAlert({1, 4}, WideLimitArgs, {AlertDefaults})

WideReadAllAlerts == Counted /\ DoReadAllAlerts

NextAlertLimit ==
  \/ WideSetAlert
  \/ WideReadAllAlerts

SpecAlertLimit == InitReady(AlertDevices) /\ [][NextAlertLimit]_vars

\* ================================================================ claims
\* a register word, high byte first, read as 16-bit two's complement
SignedWord(w) ==
  LET raw == 256 * w[1] + w[2]
  IN  IF raw >= 32768 THEN raw - 65536 ELSE raw

\* the step of T_H and T_delta at each ADC resolution, in 1/64 degree
StepOfAdc(bits) ==
  CASE bits = 12 -> 64 [] bits = 14 -> 16 [] bits = 16 -> 4 [] bits = 18 -> 4

\* C1: every read_temperatures call issues exactly one pointer write that
\* selects register 0x00 and then exactly one 6-byte read, nothing else, and
\* T_H, T_delta and T_C are decoded from bytes 0-1, 2-3 and 4-5 of that burst.
C1_SingleBurst ==
  lastOp = "read_temperatures" =>
    /\ Len(bus) = 2
    /\ bus[1] = [op |-> "write", bytes |-> <<REG_HOT_JUNCTION>>]
    /\ bus[2].op = "read"
    /\ Len(bus[2].bytes) = 6
    /\ bus[2].bytes = preRegs[0] \o preRegs[1] \o preRegs[2]
    /\ LET d == bus[2].bytes
       IN  /\ ret.T_H = SignedWord(<<d[1], d[2]>>) * StepOfAdc(adc_resolution)
           /\ ret.T_delta = SignedWord(<<d[3], d[4]>>) * StepOfAdc(adc_resolution)
           /\ ret.T_C = SignedWord(<<d[5], d[6]>>) * cold_junction_res

\* read_temperatures ran while the device pointer was on another register
C1_Witness ==
  /\ lastOp = "read_temperatures"
  /\ prePtr = REG_STATUS
  /\ Len(bus) = 2
  /\ ptr = REG_HOT_JUNCTION

\* C2: each pair is a 16-bit two's-complement integer times a step: 1.0 /
\* 0.25 / 0.0625 / 0.0625 for ADC resolution 12 / 14 / 16 / 18 for T_H and
\* T_delta, the cached cold-junction resolution (0.0625 or 0.25) for T_C;
\* 0x0140 at 18 bits is 20.0 and 0xFF38 at 18 bits is -12.5.
C2_Decode ==
  lastOp = "read_temperatures" =>
    LET adc == preCache[1]
        cj  == preCache[2]
    IN  /\ adc \in {12, 14, 16, 18}
        /\ cj \in {4, 16}
        /\ ret.T_H = SignedWord(preRegs[REG_HOT_JUNCTION]) * StepOfAdc(adc)
        /\ ret.T_delta = SignedWord(preRegs[REG_DELTA_TEMP]) * StepOfAdc(adc)
        /\ ret.T_C = SignedWord(preRegs[REG_COLD_JUNCTION]) * cj
        /\ (adc = 18 /\ preRegs[REG_HOT_JUNCTION] = <<1, 64>>) => ret.T_H = 20 * 64
        /\ (adc = 18 /\ preRegs[REG_HOT_JUNCTION] = <<255, 56>>) => ret.T_H = -800

\* a negative hot junction read at 12 bits with the cold junction at 0.25
C2_Witness ==
  /\ lastOp = "read_temperatures"
  /\ preCache = <<12, 16>>
  /\ preRegs[REG_HOT_JUNCTION] = <<255, 56>>
  /\ ret.T_H = -200 * 64
  /\ ret.T_C = -100 * 16

\* the byte of a one-byte register
Byte(r, a) == r[a][1]

\* C3: set_thermocouple_type changes only bits 4-6 of register 0x05 and
\* set_filter_coefficient only bits 0-2 of it: every other bit of register
\* 0x05 is after the call what it was in register 0x05 before the call.
C3_ThermoConfigFrame ==
  /\ lastOp = "set_thermocouple_type" =>
       BitAnd(Byte(regs, REG_THERMO_CONFIG), 143)
         = BitAnd(Byte(preRegs, REG_THERMO_CONFIG), 143)
  /\ lastOp = "set_filter_coefficient" =>
       BitAnd(Byte(regs, REG_THERMO_CONFIG), 248)
         = BitAnd(Byte(preRegs, REG_THERMO_CONFIG), 248)

\* the code of each power mode in bits 0-1 of register 0x06
PowerCode(mode) ==
  CASE mode = "normal" -> 0 [] mode = "shutdown" -> 1 [] mode = "burst" -> 2

\* C4: set_power_mode(mode), mode one of normal / shutdown / burst, sets bits
\* 0-1 of register 0x06 to 00 / 01 / 10 and leaves bits 2-7 of register 0x06
\* as they were in register 0x06 before the call.
C4_PowerModeFrame ==
  (lastOp = "set_power_mode" /\ args[1] \in {"normal", "shutdown", "burst"}) =>
    /\ Byte(regs, REG_DEVICE_CONFIG) % 4 = PowerCode(args[1])
    /\ BitAnd(Byte(regs, REG_DEVICE_CONFIG), 252)
         = BitAnd(Byte(preRegs, REG_DEVICE_CONFIG), 252)

\* the ADC resolution and the cold-junction resolution register 0x06 encodes
AdcOfCode(code) ==
  CASE code = 3 -> 12 [] code = 2 -> 14 [] code = 1 -> 16 [] code = 0 -> 18

ColdOfCode(code) == IF code = 1 THEN 16 ELSE 4

\* C5: in every state after construction the cached ADC resolution and the
\* cached cold-junction resolution agree with bits 5-6 and bit 7 of register
\* 0x06, and they change only inside set_resolution.
C5_CacheAgrees ==
  handle = "ready" =>
    /\ adc_resolution = AdcOfCode((Byte(regs, REG_DEVICE_CONFIG) \div 32) % 4)
    /\ cold_junction_res = ColdOfCode(Byte(regs, REG_DEVICE_CONFIG) \div 128)
    /\ (lastOp \notin {"__init__", "set_resolution"}) =>
         <<adc_resolution, cold_junction_res>> = preCache

\* C6: set_resolution(adc_bits, cold_junction_res) replaces adc_bits by 18
\* when it is not 12 / 14 / 16 / 18 and cold_junction_res by 0.0625 when it is
\* not 0.0625 / 0.25, caches the pair and overwrites register 0x06 with
\* (adc code << 5) | (cold code << 7), codes 3/2/1/0 and 0/1, so that bits 0-4
\* become 0; set_resolution(20, 0.0625) ends with 18 and 0.0625.
C6_SetResolution ==
  lastOp = "set_resolution" =>
    LET a  == IF args[1] \in {12, 14, 16, 18} THEN args[1] ELSE 18
        c  == IF args[2] \in {4, 16} THEN args[2] ELSE 4
        ac == CASE a = 12 -> 3 [] a = 14 -> 2 [] a = 16 -> 1 [] a = 18 -> 0
        cc == IF c = 16 THEN 1 ELSE 0
    IN  /\ err = "none"
        /\ adc_resolution = a
        /\ cold_junction_res = c
        /\ regs[REG_DEVICE_CONFIG] = <<32 * ac + 128 * cc>>
        /\ Byte(regs, REG_DEVICE_CONFIG) % 32 = 0
        /\ bus = <<[op |-> "write",
                    bytes |-> <<REG_DEVICE_CONFIG, 32 * ac + 128 * cc>>]>>
        /\ args = <<20, 4>> => (adc_resolution = 18 /\ cold_junction_res = 4)

\* set_resolution(20, 0.0625) on a device in shutdown mode at 12 bits / 0.25
C6_Witness ==
  /\ lastOp = "set_resolution"
  /\ args = <<20, 4>>
  /\ Byte(preRegs, REG_DEVICE_CONFIG) % 4 = 1
  /\ regs[REG_DEVICE_CONFIG] = <<0>>
  /\ adc_resolution = 18

\* C7: for every n >= 0, after set_filter_coefficient(n) bits 0-2 of the byte
\* written to register 0x05 are min(n, 7), and the call does not fail.
C7_FilterClamp ==
  (lastOp = "set_filter_coefficient" /\ args[1] >= 0) =>
    /\ err = "none"
    /\ bus[Len(bus)].op = "write"
    /\ bus[Len(bus)].bytes[1] = REG_THERMO_CONFIG
    /\ bus[Len(bus)].bytes[2] % 8 = (IF args[1] <= 7 THEN args[1] ELSE 7)
    /\ Byte(regs, REG_THERMO_CONFIG) = bus[Len(bus)].bytes[2]

\* the largest coefficient tried ends as 7
C7_Witness ==
  /\ lastOp = "set_filter_coefficient"
  /\ args[1] = MaxFilterArg
  /\ args[1] > 8
  /\ Byte(regs, REG_THERMO_CONFIG) % 8 = 7

\* a call with an argument the method rejects
InvalidCall ==
  \/ lastOp = "set_alert" /\ args.alert_num \notin 1 .. 4
  \/ lastOp = "set_thermocouple_type"
       /\ args[1] \notin {"K", "J", "T", "N", "S", "E", "B", "R",
                          "k", "j", "t", "n", "s", "e", "b", "r"}
  \/ lastOp = "get_alerts" /\ args.kind = "list"
       /\ \E i \in DOMAIN args.xs : args.xs[i] \notin 1 .. 4

\* C8: set_alert with a channel outside 1-4, set_thermocouple_type with an
\* unknown type and get_alerts with a channel outside 1-4 fail without a bus
\* write before, so the registers and the register pointer are unchanged.
C8_FailBeforeWrite ==
  InvalidCall =>
    /\ err # "none"
    /\ \A i \in DOMAIN bus : bus[i].op # "write"
    /\ regs = preRegs
    /\ ptr = prePtr

\* the limit register of channel c as one 16-bit word
LimitWord(r, c) == 256 * r[REG_ALERT_LIMIT + c - 1][1] + r[REG_ALERT_LIMIT + c - 1][2]

\* C9: for every channel c in 1..4 and every limit with |limit| < 2048,
\* set_alert writes to register 0x10 + c - 1 a 16-bit word, high byte first,
\* whose bits 0-14 are the integer part of |limit| / 0.0625 and whose bit 15 is
\* set exactly when limit < 0; limit = -37.5 is written as 0x8258.
C9_LimitEncode ==
  (/\ lastOp = "set_alert"
   /\ args.alert_num \in 1 .. 4
   /\ Abs(args.limit) < 2048 * 64) =>
    LET c == args.alert_num
        w == LimitWord(regs, c)
    IN  /\ bus[1] = [op |-> "write",
                     bytes |-> <<REG_ALERT_LIMIT + c - 1, w \div 256, w % 256>>]
        /\ w % 32768 = Abs(args.limit) \div 4
        /\ (w >= 32768) <=> (args.limit < 0)
        /\ args.limit = -2400 => w = 33368

\* set_alert(3, limit=-37.5) left 0x8258 in register 0x12
C9_Witness ==
  /\ lastOp = "set_alert"
  /\ args.alert_num = 3
  /\ args.limit = -2400
  /\ err = "none"
  /\ regs[18] = <<130, 88>>

\* C10: for every channel c in 1..4 and every limit x that is a multiple of
\* 0.0625 with |x| < 2048, set_alert(c, limit=x) followed by read_all_alerts
\* returns x as limits[c-1].
C10_LimitRoundTrip ==
  (/\ lastOp = "read_all_alerts"
   /\ prev.op = "set_alert"
   /\ prev.err = "none"
   /\ prev.args.alert_num \in 1 .. 4
   /\ prev.args.limit % 4 = 0
   /\ Abs(prev.args.limit) < 2048 * 64) =>
    ret.limits[prev.args.alert_num] = prev.args.limit

\* the channels a selector of get_alerts asks for
Requested(sel) ==
  CASE sel.kind = "none" -> 1 .. 4
    [] sel.kind = "int"  -> {sel.n}
    [] sel.kind = "list" -> {sel.xs[i] : i \in DOMAIN sel.xs}

\* bit i of the byte s
BitOf(s, i) == (s \div Pow2(i)) % 2 = 1

\* the decimal text of a channel number, the form a key is compared in
KeyText(n) == CASE n = 1 -> "1" [] n = 2 -> "2" [] n = 3 -> "3" [] n = 4 -> "4"

\* C11: get_alerts accepts None, one channel number n in 1..4 or a list of
\* channel numbers in 1..4 and returns exactly one entry per requested
\* channel, keyed by the channel, whose value is bit n-1 of one byte of
\* register 0x04 that is read exactly once per call.
C11_GetAlerts ==
  (lastOp = "get_alerts" /\ Requested(args) \subseteq 1 .. 4) =>
    /\ err = "none"
    /\ bus = <<[op |-> "write", bytes |-> <<REG_STATUS>>],
               [op |-> "read", bytes |-> preRegs[REG_STATUS]]>>
    /\ DOMAIN ret = {KeyText(n) : n \in Requested(args)}
    /\ \A n \in Requested(args) :
         ret[KeyText(n)] = BitOf(Byte(preRegs, REG_STATUS), n - 1)

\* C12: get_status reads register 0x04 once and returns burst_complete = bit
\* 7, temp_updated = bit 6, input_range_error = bit 4, alerts[i] = bit i; the
\* short_circuit flag is false when the identity read at construction was
\* 0x40 and bit 5 when it was 0x41; no register and no cached field changes.
C12_GetStatus ==
  lastOp = "get_status" =>
    LET s == Byte(preRegs, REG_STATUS)
    IN  /\ err = "none"
        /\ bus = <<[op |-> "write", bytes |-> <<REG_STATUS>>],
                   [op |-> "read", bytes |-> <<s>>]>>
        /\ ret.burst_complete = BitOf(s, 7)
        /\ ret.temp_updated = BitOf(s, 6)
        /\ ret.input_range_error = BitOf(s, 4)
        /\ \A i \in 0 .. 3 : ret.alerts[i] = BitOf(s, i)
        /\ dev_id = 64 => ret.short_circuit = FALSE
        /\ dev_id = 65 => ret.short_circuit = BitOf(s, 5)
        /\ regs = preRegs
        /\ <<adc_resolution, cold_junction_res>> = preCache
        /\ dev_id = Byte(regs, REG_DEVICE_ID)

\* get_status on an MCP9600 whose status byte has bit 5 set
C12_Witness ==
  /\ lastOp = "get_status"
  /\ dev_id = 64
  /\ BitOf(Byte(preRegs, REG_STATUS), 5)
  /\ ret.short_circuit = FALSE
  /\ ret.alerts[3]

\* what a transaction is: its direction and the register it writes or the
\* number of bytes it reads
Shape(t) == <<t.op, IF t.op = "write" THEN t.bytes[1] ELSE Len(t.bytes)>>

\* identity read, type write, filter write, resolution write, each write to
\* 0x05 after the one-byte read it modifies
InitShape ==
  << <<"write", 32>>, <<"read", 2>>,
     <<"read", 1>>, <<"write", 5>>,
     <<"read", 1>>, <<"write", 5>>,
     <<"write", 6>> >>

\* C13: construction goes through identity read (pointer 0x20, 2-byte read),
\* type write to 0x05, filter write to 0x05, resolution write to 0x06 in this
\* order and never back; when the identity read fails with a bus error,
\* construction fails and none of the three configuration writes is issued.
C13_InitOrder ==
  lastOp = "__init__" =>
    /\ Len(bus) <= Len(InitShape)
    /\ \A i \in DOMAIN bus : Shape(bus[i]) = InitShape[i]
    /\ err = "none" => (Len(bus) = Len(InitShape) /\ handle = "ready")
    /\ err # "none" => handle = "failed"
    /\ (err = "OSError" /\ Len(bus) < 2) =>
         /\ handle = "failed"
         /\ regs = preRegs
         /\ \A i \in DOMAIN bus : Len(bus[i].bytes) = 1

\* the 2-byte identity read failed after the pointer write
C13_Witness ==
  /\ lastOp = "__init__"
  /\ err = "OSError"
  /\ bus = <<[op |-> "write", bytes |-> <<REG_DEVICE_ID>>]>>
  /\ handle = "failed"
  /\ ptr = REG_DEVICE_ID

\* C14: set_alert writes a hysteresis byte in 0..255: min(h, 255) for h >= 0;
\* for h < 0 it writes 0 or rejects the call before any bus write; it never
\* does the limit write and then fails on the hysteresis value.
C14_Hysteresis ==
  (lastOp = "set_alert" /\ args.alert_num \in 1 .. 4 /\ err # "OSError") =>
    LET h  == args.hysteresis
        hr == regs[REG_ALERT_HYSTERESIS + (args.alert_num - 1)]
    IN  IF h >= 0
          THEN err = "none" /\ hr = <<Min(h, 255)>>
          ELSE \/ err = "none" /\ hr = <<0>>
               \/ err # "none" /\ bus = <<>>

\* config byte of an alert channel, bit by bit
CfgBit(cond, i) == IF cond THEN Pow2(i) ELSE 0

CfgByte(a) ==
    CfgBit(a.enable, 0) + CfgBit(a.mode = "interrupt", 1)
  + CfgBit(~a.active_low, 2) + CfgBit(~a.rising, 3)
  + CfgBit(a.monitor = "TC", 4) + CfgBit(a.clear_interrupt, 7)

\* C17: a set_alert with channel 1..4 and hysteresis >= 0 issues exactly three
\* writes, limit (2 bytes), hysteresis (1 byte), config (1 byte), in this order
\* and no read; the config byte is computed from the arguments alone and
\* replaces the register; when the k-th write fails with a bus error, the
\* writes before it stay applied and every other register is as before.
C17_ThreeWrites ==
  (lastOp = "set_alert" /\ args.alert_num \in 1 .. 4 /\ args.hysteresis >= 0) =>
    LET c      == args.alert_num - 1
        target == <<REG_ALERT_LIMIT + c, REG_ALERT_HYSTERESIS + c, REG_ALERT_CONFIG + c>>
        width  == <<2, 1, 1>>
        done   == {target[i] : i \in DOMAIN bus}
    IN  /\ err \in {"none", "OSError"}
        /\ Len(bus) <= 3
        /\ \A i \in DOMAIN bus :
             /\ bus[i].op = "write"
             /\ bus[i].bytes[1] = target[i]
             /\ Len(bus[i].bytes) = 1 + width[i]
             /\ regs[target[i]] = Tail(bus[i].bytes)
        /\ \A r \in RegAddrs \ done : regs[r] = preRegs[r]
        /\ err = "none" =>
             /\ Len(bus) = 3
             /\ bus[2].bytes[2] = Min(args.hysteresis, 255)
             /\ bus[3].bytes[2] = CfgByte(args)
        /\ err = "OSError" => Len(bus) < 3

\* the config write failed: limit and hysteresis are new, the config is old
C17_Witness ==
  /\ lastOp = "set_alert"
  /\ err = "OSError"
  /\ Len(bus) = 2
  /\ args.alert_num = 4
  /\ regs[REG_ALERT_LIMIT + 3] # preRegs[REG_ALERT_LIMIT + 3]
  /\ regs[REG_ALERT_CONFIG + 3] = preRegs[REG_ALERT_CONFIG + 3]
  /\ regs[REG_ALERT_CONFIG + 3] # <<CfgByte(args)>>
  /\ regs[REG_ALERT_CONFIG + 3] # <<0>>

\* the modes set_power_mode names
KnownModes == {"normal", "shutdown", "burst"}

\* C15 as stated: set_power_mode with a mode other than normal / shutdown /
\* burst leaves bits 0-1 of register 0x06 at the value they had before the
\* call.
C15_UnknownModeKeeps ==
  (lastOp = "set_power_mode" /\ args[1] \notin KnownModes) =>
    Byte(regs, REG_DEVICE_CONFIG) % 4 = Byte(preRegs, REG_DEVICE_CONFIG) % 4

\* C15: set_power_mode with a mode other than shutdown / burst, one it names
\* (normal) or not, ends with one write to register 0x06 whose bits 0-1 are
\* 00, whatever they were before the call.
C15_UnknownModeClears ==
  (lastOp = "set_power_mode" /\ args[1] \notin {"shutdown", "burst"}) =>
    /\ err = "none"
    /\ bus[Len(bus)].op = "write"
    /\ bus[Len(bus)].bytes[1] = REG_DEVICE_CONFIG
    /\ bus[Len(bus)].bytes[2] % 4 = 0
    /\ Byte(regs, REG_DEVICE_CONFIG) % 4 = 0

\* an unknown mode after shutdown: the shutdown bit is gone
C15_Witness ==
  /\ lastOp = "set_power_mode"
  /\ args[1] \notin KnownModes
  /\ Byte(preRegs, REG_DEVICE_CONFIG) % 4 = 1
  /\ Byte(regs, REG_DEVICE_CONFIG) % 4 = 0

\* the thermocouple types and their codes
TypeCode(t) ==
  CASE t = "K" -> 0 [] t = "J" -> 1 [] t = "T" -> 2 [] t = "N" -> 3
    [] t = "S" -> 4 [] t = "E" -> 5 [] t = "B" -> 6 [] t = "R" -> 7

TypeNames == {"K", "J", "T", "N", "S", "E", "B", "R"}

\* C16: when the id byte read at construction is neither 0x40 nor 0x41 (and
\* the type is a known one), construction succeeds, issues the type, filter
\* and resolution writes, is ready, and dev_id is the id read; dev_id of a ready
\* handle is the id byte of the device after every later operation.
C16_UnknownId ==
  /\ (lastOp = "__init__" /\ Byte(preRegs, REG_DEVICE_ID) \notin {64, 65}
        /\ Upper(args[1]) \in TypeNames) =>
       /\ err = "none"
       /\ handle = "ready"
       /\ dev_id = Byte(preRegs, REG_DEVICE_ID)
       /\ Len(bus) = 7
       /\ \A i \in {4, 6, 7} : bus[i].op = "write" /\ Len(bus[i].bytes) = 2
       /\ <<bus[4].bytes[1], bus[6].bytes[1], bus[7].bytes[1]>>
            = <<REG_THERMO_CONFIG, REG_THERMO_CONFIG, REG_DEVICE_CONFIG>>
  /\ handle = "ready" => dev_id = Byte(regs, REG_DEVICE_ID)

\* a later operation on a handle with an unknown id, which it uses
C16_Witness ==
  /\ lastOp = "get_status"
  /\ prev.op # "__init__"
  /\ dev_id \notin {0, 64, 65}
  /\ ret.short_circuit

\* C18: after a successful construction with a type of K J T N S E B R and a
\* filter n of 0..7, register 0x05 holds the type code in bits 4-6 and n in
\* bits 0-2.
C18_TypeAndFilter ==
  (lastOp = "__init__" /\ err = "none" /\ args[1] \in TypeNames /\ args[2] \in 0 .. 7) =>
    /\ (Byte(regs, REG_THERMO_CONFIG) \div 16) % 8 = TypeCode(args[1])
    /\ Byte(regs, REG_THERMO_CONFIG) % 8 = args[2]

\* type R (code 7) and filter 5 together
C18_Witness ==
  /\ lastOp = "__init__"
  /\ err = "none"
  /\ args[1] = "R"
  /\ args[2] = 5
  /\ (Byte(regs, REG_THERMO_CONFIG) \div 16) % 8 = 7
  /\ Byte(regs, REG_THERMO_CONFIG) % 8 = 5

\* C20: a construction with adc_resolution r of 12 14 16 18 and
\* cold_junction_res c of 0.0625 0.25 ends with the cache (r, c) and register
\* 0x06 encoding (r, c), and the first read_temperatures after it decodes with
\* the steps of r and c.
C20_ConstructorResolution ==
  /\ (lastOp = "__init__" /\ err = "none"
        /\ args[4] \in {12, 14, 16, 18} /\ args[3] \in {Res0625, Res025}) =>
       /\ <<adc_resolution, cold_junction_res>> = <<args[4], args[3]>>
       /\ AdcOfCode((Byte(regs, REG_DEVICE_CONFIG) \div 32) % 4) = args[4]
       /\ ColdOfCode(Byte(regs, REG_DEVICE_CONFIG) \div 128) = args[3]
  /\ (lastOp = "read_temperatures" /\ prev.op = "__init__" /\ prev.err = "none"
        /\ prev.args[4] \in {12, 14, 16, 18} /\ prev.args[3] \in {Res0625, Res025}) =>
       /\ ret.T_H = SignedWord(preRegs[REG_HOT_JUNCTION]) * StepOfAdc(prev.args[4])
       /\ ret.T_delta = SignedWord(preRegs[REG_DELTA_TEMP]) * StepOfAdc(prev.args[4])
       /\ ret.T_C = SignedWord(preRegs[REG_COLD_JUNCTION]) * prev.args[3]

\* C19: two callers share one handle and bus, each call holds the handle from
\* its first to its last transaction. Then every read_temperatures gets the six
\* bytes of registers 0x00-0x02 in one burst and returns their decoding, and
\* every get_status and get_alerts gets the byte of register 0x04 and what it
\* returns is decoded from that byte, in every interleaving of the calls.
C19_Serialized ==
  LET s == Byte(regs, REG_STATUS)
      statusRead == <<[op |-> "write", bytes |-> <<REG_STATUS>>],
                      [op |-> "read", bytes |-> <<s>>]>>
  IN  /\ \A c \in Callers : task[c].done # <<>> => lock = c
      /\ lastOp = "read_temperatures" =>
           /\ bus = <<[op |-> "write", bytes |-> <<REG_HOT_JUNCTION>>],
                      [op |-> "read",
                       bytes |-> regs[REG_HOT_JUNCTION] \o regs[REG_DELTA_TEMP]
                                   \o regs[REG_COLD_JUNCTION]]>>
           /\ err = "none"
           /\ ret.T_H = SignedWord(regs[REG_HOT_JUNCTION]) * StepOfAdc(adc_resolution)
           /\ ret.T_delta = SignedWord(regs[REG_DELTA_TEMP]) * StepOfAdc(adc_resolution)
           /\ ret.T_C = SignedWord(regs[REG_COLD_JUNCTION]) * cold_junction_res
      /\ lastOp = "get_status" =>
           /\ bus = statusRead
           /\ err = "none"
           /\ ret.burst_complete = BitOf(s, 7)
           /\ ret.temp_updated = BitOf(s, 6)
           /\ ret.input_range_error = BitOf(s, 4)
           /\ \A i \in 0 .. 3 : ret.alerts[i] = BitOf(s, i)
      /\ lastOp = "get_alerts" =>
           /\ bus = statusRead
           /\ err = "none" <=> args.kind # "int"
           /\ err = "none" =>
                /\ DOMAIN ret = {KeyText(n) : n \in Requested(args)}
                /\ \A n \in Requested(args) : ret[KeyText(n)] = BitOf(s, n - 1)

\* one caller's read_temperatures has returned a negative T_H and the other
\* caller is inside get_alerts, the pointer already on the status register
C19_Witness ==
  /\ lastOp = "read_temperatures"
  /\ ret.T_H = SignedWord(regs[REG_HOT_JUNCTION]) * Res0625
  /\ ret.T_H < 0
  /\ \E c \in Callers :
       /\ lock = c
       /\ task[c].op = "get_alerts"
       /\ Len(task[c].done) = 1
  /\ ptr = REG_STATUS

\* the limit, hysteresis and config registers of channel d
ChannelRegs(d) ==
  {REG_ALERT_LIMIT + d - 1, REG_ALERT_HYSTERESIS + d - 1, REG_ALERT_CONFIG + d - 1}

\* C21: set_alert on channel c of 1..4, whether it returns or raises, leaves
\* the limit, hysteresis and config registers of every other channel d, the
\* thermocouple-config register, the device-config register and the cached
\* resolutions as they were before the call.
C21_AlertFrame ==
  (lastOp = "set_alert" /\ args.alert_num \in 1 .. 4) =>
    /\ \A d \in (1 .. 4) \ {args.alert_num} :
         \A r \in ChannelRegs(d) : regs[r] = preRegs[r]
    /\ regs[REG_THERMO_CONFIG] = preRegs[REG_THERMO_CONFIG]
    /\ regs[REG_DEVICE_CONFIG] = preRegs[REG_DEVICE_CONFIG]
    /\ <<adc_resolution, cold_junction_res>> = preCache

\* channel 3 was configured, then channel 2: channel 3 still holds its limit,
\* hysteresis and config
C21_Witness ==
  /\ lastOp = "set_alert"
  /\ err = "none"
  /\ args.alert_num = 2
  /\ prev.op = "set_alert"
  /\ prev.err = "none"
  /\ prev.args.alert_num = 3
  /\ regs[REG_ALERT_LIMIT + 2] = <<2, 88>>
  /\ regs[REG_ALERT_HYSTERESIS + 2] = <<255>>
  /\ regs[REG_ALERT_CONFIG + 2] = <<CfgByte(prev.args)>>
  /\ regs[REG_ALERT_CONFIG + 1] # regs[REG_ALERT_CONFIG + 2]

\* C22: in the 16-bit limit word set_alert writes, bit 15 is set if and only
\* if limit < 0, for every limit, magnitudes of 2048 degrees and more included:
\* a limit >= 0 is never written with the sign bit set.
C22_SignBit ==
  (lastOp = "set_alert" /\ args.alert_num \in 1 .. 4 /\ err = "none") =>
    /\ bus[1].op = "write"
    /\ bus[1].bytes[1] = REG_ALERT_LIMIT + args.alert_num - 1
    /\ (bus[1].bytes[2] >= 128) <=> (args.limit < 0)
    /\ (LimitWord(regs, args.alert_num) >= 32768) <=> (args.limit < 0)

====
